---- MODULE Spec2Model ----
(***************************************************************************)
(* Model of the ERP system: the double-entry ledger                        *)
(* (System/accounting/models.py, System/accounting/views.py), then the     *)
(* orders, invoices and bills with their lines and payment allocations     *)
(* (System/sales/models.py, System/purchasing/models.py), then the         *)
(* concurrent requests for document numbers, posting and line saves, the   *)
(* tax computation and the receipts against a purchase order.              *)
(*                                                                         *)
(* Specifications: Spec (ledger), SpecDoc (documents), SpecSeq (document   *)
(* numbering), SpecPost (concurrent posting), SpecLines (concurrent line   *)
(* saves), SpecTax (Tax.calculate_tax), SpecReceipt (receipt lines).  Each *)
(* one leaves the tables of the others empty.                              *)
(*                                                                         *)
(* In the ledger money is modelled in whole currency units.  The           *)
(* journal_lines table is a bag of rows: a row's primary key plays no part *)
(* in any computation of the ledger, so two rows with equal fields are two *)
(* copies in the bag.  Each action of Spec and SpecDoc is one call, run to *)
(* its end.                                                                *)
(***************************************************************************)
EXTENDS Integers, FiniteSets, Sequences, Bags, TLC

(***************************************************************************)
(* Bounds of the model.                                                    *)
(***************************************************************************)
MaxLines == 3

(***************************************************************************)
(* Master data.                                                            *)
(***************************************************************************)
\* the stored ChartOfAccount rows
Accounts == {"Cash", "Revenue"}

\* ChartOfAccount.account_type of each account of the model
account_type == [a \in Accounts |-> IF a = "Cash" THEN "asset" ELSE "income"]

\* ChartOfAccount.is_header of each account: Revenue is a heading account
is_header == [a \in Accounts |-> a = "Revenue"]

\* the stored JournalEntry rows
Entries == {"JE1", "JE2"}

\* the users that call post_journal_entry (request.user)
Users == {"alice"}

\* JournalLine.entry_type choices
EntryTypes == {"debit", "credit"}

\* the amounts a caller may hand to JournalLine(...).save()
Amounts == {-1, 1}

\* values timezone.now() may return
Times == {"now"}

\* null of posted_by / posted_date
NULL == "null"

\* the rows a caller may hand to JournalLine(...).save()
JournalLine == [journal_entry : Entries, account : Accounts,
                entry_type : EntryTypes, amount : Amounts]

VARIABLES
    status,       \* JournalEntry.status, per entry
    posted_by,    \* JournalEntry.posted_by, per entry (NULL when unset)
    posted_date,  \* JournalEntry.posted_date, per entry (NULL when unset)
    journal_lines,\* the journal_lines table, a bag of JournalLine rows
    balance,      \* ChartOfAccount.balance, the cached balance per account
    last          \* the last call made and what it reported

VARIABLES
    document,     \* the stored header row of the order / invoice / bill
    doc_lines,    \* its stored line rows, in order of creation
    allocations,  \* the stored payment-allocation rows of the invoice / bill
    receipt_lines,\* the stored PurchaseReceiptLine rows, in order of creation
    sequence,     \* the Sequence table: empty, or the one row of the type
    pc,           \* per concurrent request: the step it is at
    local         \* per concurrent request: the objects it holds in memory

vars == <<status, posted_by, posted_date, journal_lines, balance, last,
          document, doc_lines, allocations, receipt_lines, sequence, pc,
          local>>

\* the ledger tables, the document tables, the state of concurrent requests
ledgerVars == <<status, posted_by, posted_date, journal_lines, balance>>
docVars == <<document, doc_lines, allocations, receipt_lines>>
procVars == <<sequence, pc, local>>

\* no document stored / no concurrent request running
DocIdle ==
    /\ document = NULL
    /\ doc_lines = <<>>
    /\ allocations = EmptyBag
    /\ receipt_lines = <<>>
ProcIdle == sequence = {} /\ pc = <<>> /\ local = <<>>

(***************************************************************************)
(* Aggregates (QuerySet.filter(...).aggregate(Sum('amount')) ... or 0).    *)
(***************************************************************************)
RECURSIVE SumAmount(_, _)
\* Sum('amount') over the rows of bag ls that are in set S
SumAmount(ls, S) ==
    IF S = {} THEN 0
    ELSE LET r == CHOOSE x \in S : TRUE
         IN  r.amount * CopiesIn(r, ls) + SumAmount(ls, S \ {r})

\* entry.journal_lines.filter(entry_type=t): the rows of entry e of type t
EntryLines(ls, e, t) ==
    {r \in BagToSet(ls) : r.journal_entry = e /\ r.entry_type = t}

\* account.journal_entries.filter(entry_type=t): the rows on account a
AccountLines(ls, a, t) ==
    {r \in BagToSet(ls) : r.account = a /\ r.entry_type = t}

debit_total(ls, e) == SumAmount(ls, EntryLines(ls, e, "debit"))

credit_total(ls, e) == SumAmount(ls, EntryLines(ls, e, "credit"))

\* ChartOfAccount.get_balance
get_balance(ls, a) ==
    LET dt == SumAmount(ls, AccountLines(ls, a, "debit"))
        ct == SumAmount(ls, AccountLines(ls, a, "credit"))
    IN  IF account_type[a] \in {"asset", "expense"} THEN dt - ct ELSE ct - dt

\* the accounts the rows of entry e reference
EntryAccounts(ls, e) ==
    {r.account : r \in {x \in BagToSet(ls) : x.journal_entry = e}}

\* number of rows in the table
LineCount(ls) == BagCardinality(ls)

(***************************************************************************)
(* Initial state: empty journal_lines table, every account with the        *)
(* default balance 0, every entry a stored row whose status is draft or    *)
(* the declared status 'reversed' (no operation of the code produces       *)
(* 'reversed'; such rows only exist as stored data).                       *)
(***************************************************************************)
Init ==
    /\ status \in [Entries -> {"draft", "reversed"}]
    /\ posted_by = [e \in Entries |-> NULL]
    /\ posted_date = [e \in Entries |-> NULL]
    /\ journal_lines = EmptyBag
    /\ balance = [a \in Accounts |-> 0]
    /\ last = [op |-> "none", entry |-> "none", user |-> NULL, result |-> "none"]
    /\ DocIdle
    /\ ProcIdle

\* what a call leaves in last: a line save names no entry and no user, and a
\* failed post_entry reports only its error
Report(op, e, u, res) == [op |-> op, entry |-> e, user |-> u, result |-> res]

(***************************************************************************)
(* JournalLine(...).save() of a new row: Model.save() runs no validator    *)
(* and looks at no field of the entry.                                     *)
(***************************************************************************)
CreateJournalLine(r) ==
    /\ LineCount(journal_lines) < MaxLines
    /\ journal_lines' = journal_lines (+) SetToBag({r})
    /\ last' = Report("save_line", "none", NULL, "ok")
    /\ UNCHANGED <<status, posted_by, posted_date, balance>>

(***************************************************************************)
(* line.save() of a stored row after changing its account, entry_type or   *)
(* amount (the row stays with its entry): like the save of a new row, it   *)
(* runs no validator and looks at no field of the entry.                   *)
(***************************************************************************)
UpdateJournalLine(old, new) ==
    /\ BagIn(old, journal_lines)
    /\ new.journal_entry = old.journal_entry
    /\ new # old
    /\ journal_lines' = (journal_lines (-) SetToBag({old})) (+) SetToBag({new})
    /\ last' = Report("save_line", "none", NULL, "ok")
    /\ UNCHANGED <<status, posted_by, posted_date, balance>>

(***************************************************************************)
(* Faulty variants of post_entry, used to show that the properties below   *)
(* depend on its checks and writes.                                        *)
(***************************************************************************)
\* post_entry without the debit = credit validation
post_entry_NoBalanceCheck(e, u, t) ==
    IF status[e] = "posted"
    THEN /\ last' = Report("post_entry", e, NULL, "AlreadyPosted")
         /\ UNCHANGED <<status, posted_by, posted_date, journal_lines, balance>>
    ELSE /\ status' = [status EXCEPT ![e] = "posted"]
         /\ posted_by' = [posted_by EXCEPT ![e] = u]
         /\ posted_date' = [posted_date EXCEPT ![e] = t]
         /\ balance' = [a \in Accounts |->
                          IF a \in EntryAccounts(journal_lines, e)
                          THEN get_balance(journal_lines, a)
                          ELSE balance[a]]
         /\ last' = Report("post_entry", e, u, "ok")
         /\ UNCHANGED journal_lines

\* post_entry without the 'already posted' test
post_entry_NoPostedCheck(e, u, t) ==
    IF debit_total(journal_lines, e) # credit_total(journal_lines, e)
    THEN /\ last' = Report("post_entry", e, NULL, "UnbalancedEntry")
         /\ UNCHANGED <<status, posted_by, posted_date, journal_lines, balance>>
    ELSE /\ status' = [status EXCEPT ![e] = "posted"]
         /\ posted_by' = [posted_by EXCEPT ![e] = u]
         /\ posted_date' = [posted_date EXCEPT ![e] = t]
         /\ balance' = [a \in Accounts |->
                          IF a \in EntryAccounts(journal_lines, e)
                          THEN get_balance(journal_lines, a)
                          ELSE balance[a]]
         /\ last' = Report("post_entry", e, u, "ok")
         /\ UNCHANGED journal_lines

\* post_entry that recomputes the balances but never saves the accounts
post_entry_NoAccountSave(e, u, t) ==
    IF status[e] = "posted"
    THEN /\ last' = Report("post_entry", e, NULL, "AlreadyPosted")
         /\ UNCHANGED <<status, posted_by, posted_date, journal_lines, balance>>
    ELSE IF debit_total(journal_lines, e) # credit_total(journal_lines, e)
    THEN /\ last' = Report("post_entry", e, NULL, "UnbalancedEntry")
         /\ UNCHANGED <<status, posted_by, posted_date, journal_lines, balance>>
    ELSE /\ status' = [status EXCEPT ![e] = "posted"]
         /\ posted_by' = [posted_by EXCEPT ![e] = u]
         /\ posted_date' = [posted_date EXCEPT ![e] = t]
         /\ last' = Report("post_entry", e, u, "ok")
         /\ UNCHANGED <<journal_lines, balance>>

\* post_entry that recomputes the balance of every account, not only of the
\* accounts of the entry's lines
post_entry_AllAccounts(e, u, t) ==
    IF status[e] = "posted"
    THEN /\ last' = Report("post_entry", e, NULL, "AlreadyPosted")
         /\ UNCHANGED <<status, posted_by, posted_date, journal_lines, balance>>
    ELSE IF debit_total(journal_lines, e) # credit_total(journal_lines, e)
    THEN /\ last' = Report("post_entry", e, NULL, "UnbalancedEntry")
         /\ UNCHANGED <<status, posted_by, posted_date, journal_lines, balance>>
    ELSE /\ status' = [status EXCEPT ![e] = "posted"]
         /\ posted_by' = [posted_by EXCEPT ![e] = u]
         /\ posted_date' = [posted_date EXCEPT ![e] = t]
         /\ balance' = [a \in Accounts |-> get_balance(journal_lines, a)]
         /\ last' = Report("post_entry", e, u, "ok")
         /\ UNCHANGED journal_lines

(***************************************************************************)
(* post_journal_entry -> JournalEntry.post_entry(user); t is the value of  *)
(* timezone.now().  The view catches the ValueError, so a failed call      *)
(* leaves only its message.                                                *)
(***************************************************************************)
post_entry(e, u, t) ==
    IF status[e] = "posted"
    THEN \* raise ValueError("Entry already posted")
         /\ last' = Report("post_entry", e, NULL, "AlreadyPosted")
         /\ UNCHANGED <<status, posted_by, posted_date, journal_lines, balance>>
    ELSE IF debit_total(journal_lines, e) # credit_total(journal_lines, e)
    THEN \* raise ValueError("Debit (..) must equal Credit (..)")
         /\ last' = Report("post_entry", e, NULL, "UnbalancedEntry")
         /\ UNCHANGED <<status, posted_by, posted_date, journal_lines, balance>>
    ELSE /\ status' = [status EXCEPT ![e] = "posted"]
         /\ posted_by' = [posted_by EXCEPT ![e] = u]
         /\ posted_date' = [posted_date EXCEPT ![e] = t]
         /\ balance' = [a \in Accounts |->
                          IF a \in EntryAccounts(journal_lines, e)
                          THEN get_balance(journal_lines, a)
                          ELSE balance[a]]
         /\ last' = Report("post_entry", e, u, "ok")
         /\ UNCHANGED journal_lines

Next ==
    \/ \E r \in JournalLine :
          CreateJournalLine(r) /\ UNCHANGED <<docVars, procVars>>
    \/ \E old \in BagToSet(journal_lines) :
          \E new \in {[old EXCEPT !.amount = x] : x \in Amounts}
                       \cup {[old EXCEPT !.account = x] : x \in Accounts}
                       \cup {[old EXCEPT !.entry_type = x] : x \in EntryTypes} :
             UpdateJournalLine(old, new) /\ UNCHANGED <<docVars, procVars>>
    \/ \E e \in Entries, u \in Users, t \in Times :
          post_entry(e, u, t) /\ UNCHANGED <<docVars, procVars>>

Spec == Init /\ [][Next]_vars

(***************************************************************************)
(* Definitions used by the properties.                                     *)
(***************************************************************************)
\* the rows of the entries whose status is posted, as a bag
PostedLines ==
    LET S == {r \in BagToSet(journal_lines) : status[r.journal_entry] = "posted"}
    IN  [r \in S |-> CopiesIn(r, journal_lines)]

\* the balance of account a derived from the rows of posted entries only
PostedBalance(a) == get_balance(PostedLines, a)

\* the step is a call of post_entry on entry e
IsPostOf(e) == last'.op = "post_entry" /\ last'.entry = e

\* entry e is balanced in the current state
Balanced(e) == debit_total(journal_lines, e) = credit_total(journal_lines, e)

\* every stored journal line has an amount >= 0
NonNegative(ls) == \A r \in BagToSet(ls) : r.amount >= 0

\* C1: every entry whose status is posted has equal debit and credit totals
\* (stated for tables whose amounts are all >= 0, so that a violation does
\* not rest on a negative amount).
C1_PostedEntriesBalanced ==
    NonNegative(journal_lines)
    => \A e \in Entries : status[e] = "posted" => Balanced(e)

\* C2: post_entry on a draft entry whose debit total differs from its credit
\* total reports UnbalancedEntry and leaves status, posted_by, posted_date
\* and every cached balance as they were.
C2_UnbalancedPostRejected ==
    [][\A e \in Entries :
         (IsPostOf(e) /\ status[e] = "draft" /\ ~Balanced(e))
         => /\ last'.result = "UnbalancedEntry"
            /\ status' = status
            /\ posted_by' = posted_by
            /\ posted_date' = posted_date
            /\ balance' = balance]_vars

\* an unbalanced draft entry has just been refused, in a state where some
\* cached balance is already non-zero
C2_Witness ==
    /\ last.op = "post_entry"
    /\ last.result = "UnbalancedEntry"
    /\ status[last.entry] = "draft"
    /\ ~Balanced(last.entry)
    /\ \E a \in Accounts : balance[a] # 0

\* C3: post_entry on an entry whose status is posted reports AlreadyPosted
\* and leaves status, posted_by, posted_date and every cached balance as
\* they were.
C3_AlreadyPostedRejected ==
    [][\A e \in Entries :
         (IsPostOf(e) /\ status[e] = "posted")
         => /\ last'.result = "AlreadyPosted"
            /\ status' = status
            /\ posted_by' = posted_by
            /\ posted_date' = posted_date
            /\ balance' = balance]_vars

\* a posted entry has just been refused a second posting, in a state where
\* a recomputation would have changed a cached balance
C3_Witness ==
    /\ last.op = "post_entry"
    /\ last.result = "AlreadyPosted"
    /\ status[last.entry] = "posted"
    /\ posted_by[last.entry] \in Users
    /\ \E a \in EntryAccounts(journal_lines, last.entry) :
          balance[a] # get_balance(journal_lines, a)

C5_BalanceOverPostedLines ==
    NonNegative(journal_lines)
    => \A a \in Accounts : get_balance(journal_lines, a) = PostedBalance(a)

\* C6: each account's cached balance equals its balance derived from the
\* lines of posted entries (every state of this model is one in which no
\* operation is in progress; stated for tables whose amounts are all >= 0).
C6_CachedEqualsDerived ==
    NonNegative(journal_lines)
    => \A a \in Accounts : balance[a] = PostedBalance(a)

\* entry e consists of one debit line of amount x on Cash and one credit
\* line of amount x on Revenue
IsCashSale(e, x) ==
    LET d == [journal_entry |-> e, account |-> "Cash",
              entry_type |-> "debit", amount |-> x]
        c == [journal_entry |-> e, account |-> "Revenue",
              entry_type |-> "credit", amount |-> x]
    IN  /\ {r \in BagToSet(journal_lines) : r.journal_entry = e} = {d, c}
        /\ CopiesIn(d, journal_lines) = 1
        /\ CopiesIn(c, journal_lines) = 1

\* C7: posting a draft entry made of a debit x on the asset account and a
\* credit x on the income account raises both cached balances by exactly x
\* and leaves the entry posted (stated for x > 0 and tables whose amounts
\* are all >= 0).
C7_PostRaisesBothByX ==
    [][\A e \in Entries, x \in {y \in Amounts : y > 0} :
         (/\ IsPostOf(e)
          /\ status[e] = "draft"
          /\ IsCashSale(e, x)
          /\ NonNegative(journal_lines))
         => /\ status'[e] = "posted"
            /\ balance'["Cash"] = balance["Cash"] + x
            /\ balance'["Revenue"] = balance["Revenue"] + x]_vars

\* C8: the lines of a posted entry never change: none is added and none has
\* its amount, account or entry_type changed (stated for steps between
\* tables whose amounts are all >= 0).
C8_PostedLinesFrozen ==
    [][\A r \in JournalLine :
         (/\ status[r.journal_entry] = "posted"
          /\ NonNegative(journal_lines)
          /\ NonNegative(journal_lines'))
         => CopiesIn(r, journal_lines') = CopiesIn(r, journal_lines)]_vars

\* C9: an entry's status moves only from draft to posted and from posted to
\* reversed; reversed is never left.
C9_StatusOrder ==
    [][\A e \in Entries :
         \/ status'[e] = status[e]
         \/ status[e] = "draft" /\ status'[e] = "posted"
         \/ status[e] = "posted" /\ status'[e] = "reversed"]_vars

\* C10: no journal line with a negative amount is ever stored.
C10_NoNegativePersisted ==
    NonNegative(journal_lines)

\* entry e has no line
HasNoLines(e) == \A r \in BagToSet(journal_lines) : r.journal_entry # e

\* C25 (as claimed): header accounts receive no postings: when post_entry
\* succeeds on an entry, no line of the entry references an account whose
\* is_header flag is true.
C25_NoHeaderPostings ==
    [][\A e \in Entries :
         (IsPostOf(e) /\ last'.result = "ok" /\ NonNegative(journal_lines))
         => \A a \in EntryAccounts(journal_lines', e) : ~is_header[a]]_vars

\* C30: post_entry on a draft entry without lines succeeds: the entry becomes
\* posted and the cached balance of every account stays as it was.
C30_EmptyEntryPosts ==
    [][\A e \in Entries :
         (IsPostOf(e) /\ status[e] = "draft" /\ HasNoLines(e))
         => /\ last'.result = "ok"
            /\ status'[e] = "posted"
            /\ balance' = balance]_vars

\* an entry without lines has just been posted while a line of another
\* entry makes the derived balance of an account differ from its cached one
C30_Witness ==
    /\ last.op = "post_entry"
    /\ last.result = "ok"
    /\ status[last.entry] = "posted"
    /\ HasNoLines(last.entry)
    /\ \E a \in Accounts : get_balance(journal_lines, a) # balance[a]

(***************************************************************************)
(* ----------------------------------------------------------------------- *)
(* Documents: orders, invoices and bills, their lines and the payment      *)
(* allocations (System/sales/models.py, System/purchasing/models.py).      *)
(*                                                                         *)
(* SalesOrder / PurchaseOrder share one code pattern, and so do            *)
(* SalesInvoice / PurchaseBill; the model has one document whose kind is   *)
(* "order" or "invoice" and uses the names of the sales classes.  Money in *)
(* this part is counted in hundredths of the currency unit, as a           *)
(* DecimalField(decimal_places=2) stores it; percentages are whole         *)
(* percents and tax rates are counted in 1/10000, as                       *)
(* Tax.rate = DecimalField(decimal_places=4) stores them.  A value that is *)
(* written to a column is rounded to the two places of the column, half to *)
(* even.  Every request loads the rows it works on from the database.      *)
(* ----------------------------------------------------------------------- *)
(***************************************************************************)
MaxDocLines == 2

\* the two code patterns: SalesOrder / PurchaseOrder, SalesInvoice / PurchaseBill
Kinds == {"order", "invoice"}

\* line inputs: quantity, unit_price (100.00), discount_percent
Quantities == {10}
UnitPrices == {10000}
DiscountPercents == {0, 10}

\* the stored Tax rows: rates 0, 7%, 50% and 100% (the validators of
\* Tax.rate allow 0 to 1), each added to the amount or contained in it (I)
Taxes == {"VAT0", "VAT0I", "VAT7", "VAT7I", "VAT50", "VAT50I", "VAT100", "VAT100I"}
tax_rate == [t \in Taxes |->
                CASE t \in {"VAT0", "VAT0I"} -> 0
                  [] t \in {"VAT7", "VAT7I"} -> 700
                  [] t \in {"VAT50", "VAT50I"} -> 5000
                  [] OTHER -> 10000]
is_inclusive == [t \in Taxes |-> t \in {"VAT0I", "VAT7I", "VAT50I", "VAT100I"}]

\* line.tax: a Tax row or null
LineTaxes == {NULL, "VAT7"}

\* Customer.discount_percent / Supplier.discount_percent of the party
PartyDiscounts == {0, 5}

\* due_date of an invoice / bill relative to timezone.now().date()
DueDates == {"yesterday", "tomorrow"}

\* the stored payments and the amounts a caller allocates (400.00, 600.00)
Payments == {"PAY1", "PAY2"}
AllocationAmounts == {40000, 60000}

\* n / d rounded to the nearest integer, ties to the even one (d > 0):
\* Decimal.quantize under the default context, used by round(x, 2) and by
\* the write of a DecimalField
RoundHalfEven(n, d) ==
    LET q == n \div d
        r == n % d
    IN  IF 2 * r < d THEN q
        ELSE IF 2 * r > d THEN q + 1
        ELSE IF q % 2 = 0 THEN q ELSE q + 1

\* calculate_tax with round-half-up in place of round(x, 2)
calculate_tax_HalfUp(t, amount) ==
    LET den == IF is_inclusive[t] THEN 10000 + tax_rate[t] ELSE 10000
        tax == amount * tax_rate[t]
        base == IF is_inclusive[t] THEN amount * den - tax ELSE amount * den
        Up(n) == (2 * n + den) \div (2 * den)
    IN  [base_amount |-> Up(base), tax_amount |-> Up(tax),
         total_amount |-> Up(base + tax)]

\* calculate_tax that adds the tax to the amount for an inclusive tax too
calculate_tax_TotalAddsTax(t, amount) ==
    LET den == IF is_inclusive[t] THEN 10000 + tax_rate[t] ELSE 10000
        tax == amount * tax_rate[t]
        base == IF is_inclusive[t] THEN amount * den - tax ELSE amount * den
    IN  [base_amount  |-> RoundHalfEven(base, den),
         tax_amount   |-> RoundHalfEven(tax, den),
         total_amount |-> RoundHalfEven(amount * den + tax, den)]

\* Tax.calculate_tax(amount): amount in hundredths, result in hundredths.
\* tax / den and base / den are tax_amount and base_amount before rounding:
\* for an inclusive tax amount * rate / (1 + rate) and amount - tax_amount,
\* otherwise amount * rate and amount.  The Decimal division keeps 28
\* digits, which decides every rounding to two places as the exact quotient
\* does.
calculate_tax(t, amount) ==
    LET den == IF is_inclusive[t] THEN 10000 + tax_rate[t] ELSE 10000
        tax == amount * tax_rate[t]
        base == IF is_inclusive[t] THEN amount * den - tax ELSE amount * den
    IN  [base_amount  |-> RoundHalfEven(base, den),
         tax_amount   |-> RoundHalfEven(tax, den),
         total_amount |-> RoundHalfEven(base + tax, den)]

RECURSIVE SumLineTotal(_)
\* sum(line.line_total for line in lines)
SumLineTotal(ls) ==
    IF ls = <<>> THEN 0 ELSE Head(ls).line_total + SumLineTotal(Tail(ls))

RECURSIVE SumLineTax(_)
\* tax_amount = 0; for line in lines: if line.tax: tax_amount += ...['tax_amount']
SumLineTax(ls) ==
    IF ls = <<>> THEN 0
    ELSE (IF Head(ls).tax # NULL
          THEN calculate_tax(Head(ls).tax, Head(ls).line_total).tax_amount
          ELSE 0) + SumLineTax(Tail(ls))

RECURSIVE SumAllocated(_, _)
\* payment_allocations.aggregate(total=Sum('amount'))['total'] or 0
SumAllocated(al, S) ==
    IF S = {} THEN 0
    ELSE LET r == CHOOSE x \in S : TRUE
         IN  r.amount * CopiesIn(r, al) + SumAllocated(al, S \ {r})

(***************************************************************************)
(* SalesOrderLine.save / SalesInvoiceLine.save / PurchaseOrderLine.save /  *)
(* PurchaseBillLine.save up to super().save(): m is the line object in     *)
(* memory, the result is the row that is written.  discount_amount is      *)
(* computed only when discount_percent > 0; otherwise the object keeps the *)
(* value it has.                                                           *)
(***************************************************************************)
line_save(m) ==
    LET gross == m.quantity * m.unit_price
        disc100 == IF m.discount_percent > 0
                   THEN gross * m.discount_percent
                   ELSE m.discount_amount * 100
    IN  [m EXCEPT !.discount_amount = RoundHalfEven(disc100, 100),
                  !.line_total = RoundHalfEven(gross * 100 - disc100, 100)]

(***************************************************************************)
(* SalesOrder.calculate_totals / PurchaseOrder.calculate_totals: d is the  *)
(* order object, ls the stored lines; the result is the stored row after   *)
(* save(update_fields=[subtotal, discount_amount, tax_amount,              *)
(* total_amount]).                                                         *)
(***************************************************************************)
\* the method without its statement self.tax_amount = 0: the taxes of the
\* lines are added to the tax_amount the order already has
order_calculate_totals_NoTaxReset(d, ls) ==
    LET subtotal == SumLineTotal(ls)
        disc100 == subtotal * d.party_discount
        tax == d.tax_amount + SumLineTax(ls)
    IN  [d EXCEPT !.subtotal = subtotal,
                  !.discount_amount = RoundHalfEven(disc100, 100),
                  !.tax_amount = tax,
                  !.total_amount =
                      RoundHalfEven(subtotal * 100 - disc100 + tax * 100, 100)]

order_calculate_totals(d, ls) ==
    LET subtotal == SumLineTotal(ls)
        disc100 == subtotal * d.party_discount
        tax == SumLineTax(ls)
    IN  [d EXCEPT !.subtotal = subtotal,
                  !.discount_amount = RoundHalfEven(disc100, 100),
                  !.tax_amount = tax,
                  !.total_amount =
                      RoundHalfEven(subtotal * 100 - disc100 + tax * 100, 100)]

(***************************************************************************)
(* SalesInvoice.calculate_totals / PurchaseBill.calculate_totals: d is the *)
(* stored row, paid the paid_amount of the object in memory, ls the stored *)
(* lines.  With paid_amount = 0 the method evaluates                       *)
(* timezone.now().date(); neither models.py imports timezone, so the call  *)
(* raises NameError before anything is saved.  Otherwise it ends with      *)
(* save(update_fields=[subtotal, tax_amount, total_amount,                 *)
(* outstanding_amount, status]): paid_amount is not among the fields       *)
(* written.  error is the exception raised (NULL for none), row the stored *)
(* row afterwards.                                                         *)
(***************************************************************************)
\* the invoice / bill method with the discount of the order method
invoice_calculate_totals_PartyDiscount(d, paid, ls) ==
    LET subtotal == SumLineTotal(ls)
        tax == SumLineTax(ls)
        disc == RoundHalfEven(subtotal * d.party_discount, 100)
        total == subtotal - disc + tax
    IN  IF paid = 0
        THEN [error |-> "NameError", row |-> d]
        ELSE [error |-> NULL,
              row |-> [d EXCEPT !.subtotal = subtotal,
                                !.discount_amount = disc,
                                !.tax_amount = tax,
                                !.total_amount = total,
                                !.outstanding_amount = total - paid,
                                !.status = IF paid >= total THEN "paid"
                                           ELSE "partial_paid"]]

invoice_calculate_totals(d, paid, ls) ==
    LET subtotal == SumLineTotal(ls)
        tax == SumLineTax(ls)
        total == subtotal - d.discount_amount + tax
    IN  IF paid = 0
        THEN [error |-> "NameError", row |-> d]
        ELSE [error |-> NULL,
              row |-> [d EXCEPT !.subtotal = subtotal,
                                !.tax_amount = tax,
                                !.total_amount = total,
                                !.outstanding_amount = total - paid,
                                !.status = IF paid >= total THEN "paid"
                                           ELSE "partial_paid"]]

\* self.order.calculate_totals() / self.invoice.calculate_totals() of a
\* request that has loaded the parent from the database: the stored row
\* afterwards and the exception raised
calculate_totals_of(d, paid, ls) ==
    IF d.kind = "order"
    THEN [error |-> NULL, row |-> order_calculate_totals(d, ls)]
    ELSE invoice_calculate_totals(d, paid, ls)

\* what a call on the document leaves in last
DocReport(op, err) ==
    Report(op, "none", NULL, IF err = NULL THEN "ok" ELSE err)

\* what the save of a new allocation for payment pay leaves in last
AllocReport(pay, err) ==
    Report("allocation_create", pay, NULL, IF err = NULL THEN "ok" ELSE err)

\* a new document: the defaults of the model fields
NewDocument(k, pd, due) ==
    [kind |-> k, subtotal |-> 0, discount_amount |-> 0, tax_amount |-> 0,
     total_amount |-> 0, paid_amount |-> 0, outstanding_amount |-> 0,
     status |-> "draft", due_date |-> due, party_discount |-> pd]

\* the ledger tables with every entry a draft and no line
LedgerIdle ==
    /\ status = [e \in Entries |-> "draft"]
    /\ posted_by = [e \in Entries |-> NULL]
    /\ posted_date = [e \in Entries |-> NULL]
    /\ journal_lines = EmptyBag
    /\ balance = [a \in Accounts |-> 0]

\* the invoices / bills stored without lines: one past its due date, and
\* one not yet due that was entered with a discount_amount of 20.00 for a
\* party that has a discount_percent
NewInvoices ==
    {NewDocument("invoice", 0, "yesterday"),
     [NewDocument("invoice", 5, "tomorrow") EXCEPT !.discount_amount = 2000]}

\* one stored document without lines: an order of a party with or without a
\* discount, or an invoice / bill
DocInit ==
    /\ document \in {NewDocument("order", pd, "tomorrow") : pd \in PartyDiscounts}
                    \cup NewInvoices
    /\ doc_lines = <<>>
    /\ allocations = EmptyBag
    /\ receipt_lines = <<>>
    /\ last = [op |-> "none", entry |-> "none", user |-> NULL, result |-> "none"]
    /\ LedgerIdle
    /\ ProcIdle

(***************************************************************************)
(* Line(...).save() of a new line: the row is written by super().save(),   *)
(* then the parent is recomputed.  The two are separate statements outside *)
(* any transaction, so an exception of the recomputation leaves the row    *)
(* written.                                                                *)
(***************************************************************************)
LineCreate(q, p, dp, t) ==
    LET m == [quantity |-> q, unit_price |-> p, discount_percent |-> dp,
              discount_amount |-> 0, line_total |-> 0, tax |-> t]
        ls == Append(doc_lines, line_save(m))
        r == calculate_totals_of(document, document.paid_amount, ls)
    IN  /\ Len(doc_lines) < MaxDocLines
        /\ doc_lines' = ls
        /\ document' = r.row
        /\ last' = DocReport("line_save", r.error)
        /\ UNCHANGED allocations

\* line.save() of stored line i after setting quantity, discount_percent, tax
LineUpdate(i, q, dp, t) ==
    LET m == [doc_lines[i] EXCEPT !.quantity = q, !.discount_percent = dp,
                                  !.tax = t]
        ls == [doc_lines EXCEPT ![i] = line_save(m)]
        r == calculate_totals_of(document, document.paid_amount, ls)
    IN  /\ i \in 1..Len(doc_lines)
        /\ doc_lines' = ls
        /\ document' = r.row
        /\ last' = DocReport("line_save", r.error)
        /\ UNCHANGED allocations

\* line.delete() of stored line i: no line class overrides delete and no
\* signal is connected, so only the row goes
LineDelete(i) ==
    /\ i \in 1..Len(doc_lines)
    /\ doc_lines' = [k \in 1..(Len(doc_lines) - 1) |->
                        IF k < i THEN doc_lines[k] ELSE doc_lines[k + 1]]
    /\ last' = DocReport("line_delete", NULL)
    /\ UNCHANGED <<document, allocations>>

\* approve_purchase_bill (POST): bill.status = 'approved'; bill.save()
approve_purchase_bill ==
    /\ document.kind = "invoice"
    /\ document' = [document EXCEPT !.status = "approved"]
    /\ last' = DocReport("approve_purchase_bill", NULL)
    /\ UNCHANGED <<doc_lines, allocations>>

\* document.calculate_totals() called on its own
calculate_totals ==
    LET r == calculate_totals_of(document, document.paid_amount, doc_lines)
    IN  /\ document' = r.row
        /\ last' = DocReport("calculate_totals", r.error)
        /\ UNCHANGED <<doc_lines, allocations>>

(***************************************************************************)
(* SalesPaymentAllocation.save / PurchasePaymentAllocation.save.           *)
(* unique_together = [payment, invoice] is a unique constraint of the      *)
(* table: super().save() of a second row for the pair raises               *)
(* IntegrityError and the method ends there.  Otherwise the row is         *)
(* written, the allocations of the invoice are summed into the             *)
(* paid_amount of the invoice object in memory, and calculate_totals is    *)
(* called on that object.                                                  *)
(***************************************************************************)
\* the save of a new allocation without the unique constraint
AllocationCreate_NoUnique(pay, amt) ==
    LET al == allocations (+) SetToBag({[payment |-> pay, amount |-> amt]})
        r == invoice_calculate_totals(document,
                                      SumAllocated(al, BagToSet(al)), doc_lines)
    IN  /\ document.kind = "invoice"
        /\ BagCardinality(allocations) <= Cardinality(Payments)
        /\ allocations' = al
        /\ document' = r.row
        /\ last' = AllocReport(pay, r.error)
        /\ UNCHANGED doc_lines

AllocationCreate(pay, amt) ==
    LET al == allocations (+) SetToBag({[payment |-> pay, amount |-> amt]})
        r == invoice_calculate_totals(document,
                                      SumAllocated(al, BagToSet(al)), doc_lines)
    IN  /\ document.kind = "invoice"
        /\ IF \E x \in BagToSet(allocations) : x.payment = pay
           THEN /\ last' = AllocReport(pay, "IntegrityError")
                /\ UNCHANGED <<document, doc_lines, allocations>>
           ELSE /\ allocations' = al
                /\ document' = r.row
                /\ last' = AllocReport(pay, r.error)
                /\ UNCHANGED doc_lines

\* allocation.save() of the stored row old after setting its amount
AllocationUpdate(old, amt) ==
    LET al == (allocations (-) SetToBag({old}))
                  (+) SetToBag({[old EXCEPT !.amount = amt]})
        r == invoice_calculate_totals(document,
                                      SumAllocated(al, BagToSet(al)), doc_lines)
    IN  /\ document.kind = "invoice"
        /\ BagIn(old, allocations)
        /\ allocations' = al
        /\ document' = r.row
        /\ last' = DocReport("allocation_update", r.error)
        /\ UNCHANGED doc_lines

\* The line forms submitted to a document: a plain line, and a discounted line
\* that carries a tax.  Both values of each field occur, so an update can
\* switch a line's discount and tax on and off.
LineInputs ==
    {f \in [discount_percent : DiscountPercents, tax : LineTaxes] :
        (f.discount_percent = 0) <=> (f.tax = NULL)}

DocNext ==
    \/ \E q \in Quantities, p \in UnitPrices, f \in LineInputs :
          LineCreate(q, p, f.discount_percent, f.tax)
          /\ UNCHANGED <<ledgerVars, procVars, receipt_lines>>
    \/ \E i \in 1..Len(doc_lines), q \in Quantities, f \in LineInputs :
          LineUpdate(i, q, f.discount_percent, f.tax)
          /\ UNCHANGED <<ledgerVars, procVars, receipt_lines>>
    \/ calculate_totals /\ UNCHANGED <<ledgerVars, procVars, receipt_lines>>
    \/ \E i \in 1..Len(doc_lines) :
          LineDelete(i)
          /\ UNCHANGED <<ledgerVars, procVars, receipt_lines>>
    \/ approve_purchase_bill /\ UNCHANGED <<ledgerVars, procVars, receipt_lines>>
    \/ \E pay \in Payments, amt \in AllocationAmounts :
          AllocationCreate(pay, amt)
          /\ UNCHANGED <<ledgerVars, procVars, receipt_lines>>
    \/ \E old \in BagToSet(allocations), amt \in AllocationAmounts :
          AllocationUpdate(old, amt)
          /\ UNCHANGED <<ledgerVars, procVars, receipt_lines>>

SpecDoc == DocInit /\ [][DocNext]_vars

(***************************************************************************)
(* Definitions used by the properties of documents.                        *)
(***************************************************************************)
\* the sum of the stored allocations of the invoice
total_allocated == SumAllocated(allocations, BagToSet(allocations))

\* line amounts as the formulas give them from the line's own fields
LineAmountsFromFields(l) ==
    /\ l.discount_amount * 100 = l.quantity * l.unit_price * l.discount_percent
    /\ l.line_total = l.quantity * l.unit_price - l.discount_amount

\* C11 (as claimed): every stored line has discount_amount = quantity *
\* unit_price * discount_percent / 100 and line_total = quantity * unit_price
\* - discount_amount; in particular discount_amount is 0 when discount_percent
\* is 0, also for a line saved before with a positive discount_percent.
C11_LineAmounts ==
    \A i \in 1..Len(doc_lines) : LineAmountsFromFields(doc_lines[i])

\* C12 (as claimed): in every state with a stored line the stored parent
\* agrees with its stored lines: subtotal is the sum of line_total, tax_amount the sum of the
\* per-line taxes, total_amount = subtotal - discount_amount + tax_amount.
C12_ParentMatchesLines ==
    Len(doc_lines) > 0 =>
    /\ document.subtotal = SumLineTotal(doc_lines)
    /\ document.tax_amount = SumLineTax(doc_lines)
    /\ document.total_amount =
          document.subtotal - document.discount_amount + document.tax_amount

\* C13 (as claimed): the stored paid_amount of an invoice / bill is the sum
\* of its stored allocations.
C13_PaidEqualsAllocated ==
    document.kind = "invoice" =>
        document.paid_amount = total_allocated

\* C14 (as claimed): in every stored state of an invoice / bill
\* outstanding_amount = total_amount - paid_amount.
C14_OutstandingIdentity ==
    document.kind = "invoice" =>
        document.outstanding_amount = document.total_amount - document.paid_amount

\* the status the rules of the specification give, from the status before,
\* the amount paid, the total and the due date
status_by_rules(before, paid, total, due) ==
    IF paid = 0
    THEN IF due = "yesterday" THEN "overdue"
         ELSE IF before = "draft" THEN "draft" ELSE "confirmed"
    ELSE IF paid >= total THEN "paid" ELSE "partial_paid"

\* the step is a recomputation of the invoice / bill that was not refused
IsRecompute ==
    /\ document.kind = "invoice"
    /\ last'.op \in {"line_save", "calculate_totals", "allocation_create",
                     "allocation_update"}
    /\ last'.result # "IntegrityError"

\* C15 (as claimed): after an allocation or a recomputation the status of the
\* invoice / bill is the one the rules give for the amount allocated to it,
\* the total of its lines and its due date.
C15_StatusByRules ==
    [][IsRecompute =>
         document'.status =
            status_by_rules(document.status,
                            SumAllocated(allocations', BagToSet(allocations')),
                            SumLineTotal(doc_lines') - document.discount_amount
                                + SumLineTax(doc_lines'),
                            document.due_date)]_vars

\* no two stored allocations are for the same payment (and the one invoice)
AtMostOnePerPair ==
    \A r \in BagToSet(allocations) :
        /\ CopiesIn(r, allocations) = 1
        /\ \A x \in BagToSet(allocations) : x.payment = r.payment => x = r

\* the step is the save of a new allocation for a payment that has one
IsDuplicateCreate ==
    /\ last'.op = "allocation_create"
    /\ \E x \in BagToSet(allocations) : x.payment = last'.entry

\* C16: at most one allocation is stored per (payment, invoice / bill), and
\* the save of a second one for the pair fails (IntegrityError, the
\* specification's DuplicateAllocation) and leaves the stored allocation and
\* the paid, outstanding and status fields of the document as they were.
C16_UniqueAllocation ==
    /\ []AtMostOnePerPair
    /\ [][IsDuplicateCreate =>
            /\ last'.result = "IntegrityError"
            /\ UNCHANGED <<document, doc_lines, allocations>>]_vars

\* a second allocation for a payment has just been refused, on an invoice
\* that an earlier allocation has set to partial_paid
C16_Witness ==
    /\ last.op = "allocation_create"
    /\ last.result = "IntegrityError"
    /\ \E x \in BagToSet(allocations) : x.payment = last.entry
    /\ document.status = "partial_paid"
    /\ document.outstanding_amount > 0

\* the calls that end with calculate_totals
RecomputeOps ==
    {"line_save", "calculate_totals", "allocation_create", "allocation_update"}

\* C20: when the last call ended with a completed calculate_totals and the
\* next call runs calculate_totals to its end again with no line and no
\* allocation changed, the stored subtotal, discount_amount, tax_amount,
\* total_amount, outstanding_amount and status stay as they are.
C20_RecomputeIdempotent ==
    [][(/\ last.op \in RecomputeOps /\ last.result = "ok"
        /\ last'.op \in RecomputeOps /\ last'.result = "ok"
        /\ doc_lines' = doc_lines
        /\ allocations' = allocations)
       => document' = document]_vars

\* calculate_totals has run on its own on an order with two lines, a tax and
\* a party discount; every call on an order ends with calculate_totals, so
\* this run was the second in a row
C20_Witness ==
    /\ last.op = "calculate_totals"
    /\ last.result = "ok"
    /\ document.kind = "order"
    /\ Len(doc_lines) = 2
    /\ document.tax_amount > 0
    /\ document.discount_amount > 0
    /\ document.total_amount =
          document.subtotal - document.discount_amount + document.tax_amount

\* C21: a completed calculate_totals on an order stores discount_amount =
\* subtotal * party.discount_percent / 100 (to the cent); no call on an
\* invoice / bill changes its discount_amount, and a completed
\* calculate_totals on an invoice / bill stores total_amount = subtotal -
\* discount_amount + tax_amount with the discount_amount it found.
C21_DiscountAsymmetry ==
    [][/\ (/\ document.kind = "order"
           /\ last'.op \in RecomputeOps /\ last'.result = "ok")
          => /\ document'.subtotal = SumLineTotal(doc_lines')
             /\ 2 * (document'.discount_amount * 100
                       - document'.subtotal * document.party_discount) <= 100
             /\ 2 * (document'.subtotal * document.party_discount
                       - document'.discount_amount * 100) <= 100
       /\ document.kind = "invoice"
          => document'.discount_amount = document.discount_amount
       /\ (/\ document.kind = "invoice"
           /\ last'.op \in RecomputeOps /\ last'.result = "ok")
          => /\ document'.subtotal = SumLineTotal(doc_lines')
             /\ document'.total_amount =
                   document'.subtotal - document.discount_amount
                       + document'.tax_amount]_vars

\* calculate_totals has completed on the invoice that was entered with a
\* discount_amount of 20.00 for a party with a discount_percent of 5, with a
\* line stored: the 20.00 is still there and is what the total was taken from
C21_Witness ==
    /\ document.kind = "invoice"
    /\ document.party_discount = 5
    /\ last.op \in RecomputeOps
    /\ last.result = "ok"
    /\ Len(doc_lines) > 0
    /\ document.subtotal = SumLineTotal(doc_lines)
    /\ document.discount_amount = 2000
    /\ document.discount_amount * 100
          # document.subtotal * document.party_discount
    /\ document.total_amount =
          document.subtotal - document.discount_amount + document.tax_amount

\* the step is the save of an allocation that the table did not refuse and
\* that brings the allocations of the invoice / bill above the total of its
\* lines
IsOverAllocation ==
    /\ document.kind = "invoice"
    /\ last'.op \in {"allocation_create", "allocation_update"}
    /\ last'.result # "IntegrityError"
    /\ SumAllocated(allocations', BagToSet(allocations'))
          > SumLineTotal(doc_lines) - document.discount_amount
              + SumLineTax(doc_lines)

\* C26 (as claimed): an allocation that brings the allocations of an invoice
\* / bill above its total is accepted, and the stored document then has
\* paid_amount > total_amount, outstanding_amount < 0 and status paid.
C26_OverAllocationAccepted ==
    [][IsOverAllocation
       => /\ last'.result = "ok"
          /\ allocations' # allocations
          /\ document'.paid_amount > document'.total_amount
          /\ document'.outstanding_amount < 0
          /\ document'.status = "paid"]_vars

\* C27 (as claimed): after the deletion of a line the stored subtotal,
\* tax_amount and total_amount of the parent are the ones computed from the
\* lines that remain.
C27_DeleteRecomputes ==
    [][last'.op = "line_delete"
       => /\ document'.subtotal = SumLineTotal(doc_lines')
          /\ document'.tax_amount = SumLineTax(doc_lines')
          /\ document'.total_amount =
                document'.subtotal - document'.discount_amount
                    + document'.tax_amount]_vars

\* PurchaseBill.STATUS_CHOICES
BillStatuses ==
    {"draft", "confirmed", "paid", "partial_paid", "overdue", "cancelled"}

\* C28 (as claimed): the stored status of a bill is always one of its
\* declared values.
C28_StatusDeclared ==
    document.kind = "invoice" => document.status \in BillStatuses

(***************************************************************************)
(* ----------------------------------------------------------------------- *)
(* Document numbering under concurrent requests: create_journal_entry      *)
(* (System/accounting/views.py), the same statements as in                 *)
(* create_purchase_order, create_sales_order and the other create views.   *)
(* Each request is a thread of the server with its own objects; a step is  *)
(* one statement that reads or writes the database.  No view opens a       *)
(* transaction or takes a lock.  Sequence.get_next_number (core/models.py) *)
(* increments the number the object was read with and writes it back.      *)
(* ----------------------------------------------------------------------- *)
(***************************************************************************)
\* the concurrent requests
Requests == {"r1", "r2", "r3"}

\* the stored current_number of the Sequence row
current_number == (CHOOSE row \in sequence : TRUE).current_number

\* no request has started; the Sequence row does not exist yet or exists
SeqInit ==
    /\ sequence \in {{}, {[prefix |-> "JE", current_number |-> 41]}}
    /\ pc = [r \in Requests |-> "start"]
    /\ local = [r \in Requests |-> [current_number |-> 0, entry_number |-> 0]]
    /\ last = [op |-> "none", entry |-> "none", user |-> NULL, result |-> "none"]
    /\ LedgerIdle
    /\ DocIdle

\* Sequence.objects.get_or_create(sequence_type='journal_entry',
\*     defaults={'prefix': 'JE', 'current_number': 0})[0]
get_or_create(r) ==
    /\ pc[r] = "start"
    /\ sequence' = IF sequence = {}
                   THEN {[prefix |-> "JE", current_number |-> 0]}
                   ELSE sequence
    /\ local' = [local EXCEPT ![r].current_number =
                    IF sequence = {} THEN 0 ELSE current_number]
    /\ pc' = [pc EXCEPT ![r] = "loaded"]

\* sequence.get_next_number(): the object's current_number is incremented
\* and saved, and the new number is returned
get_next_number(r) ==
    /\ pc[r] = "loaded"
    /\ sequence' = {[prefix |-> "JE",
                     current_number |-> local[r].current_number + 1]}
    /\ local' = [local EXCEPT ![r].current_number = @ + 1,
                              ![r].entry_number = local[r].current_number + 1]
    /\ pc' = [pc EXCEPT ![r] = "numbered"]

\* entry.save(): JournalEntry.entry_number has no unique constraint
entry_save(r) ==
    /\ pc[r] = "numbered"
    /\ pc' = [pc EXCEPT ![r] = "saved"]
    /\ UNCHANGED <<sequence, local>>

SeqNext ==
    \/ \E r \in Requests : get_or_create(r) /\ UNCHANGED <<ledgerVars, docVars, last>>
    \/ \E r \in Requests : get_next_number(r) /\ UNCHANGED <<ledgerVars, docVars, last>>
    \/ \E r \in Requests : entry_save(r) /\ UNCHANGED <<ledgerVars, docVars, last>>

SpecSeq == SeqInit /\ [][SeqNext]_vars

\* C17 (as claimed): no two stored documents have the same number, under
\* every interleaving of the requests that create them.
C17_UniqueNumbers ==
    \A r1 \in Requests, r2 \in Requests :
        (r1 # r2 /\ pc[r1] = "saved" /\ pc[r2] = "saved")
            => local[r1].entry_number # local[r2].entry_number

(***************************************************************************)
(* ----------------------------------------------------------------------- *)
(* Concurrent post_journal_entry requests on one entry.  The statements of *)
(* the view and of JournalEntry.post_entry that touch the database are the *)
(* steps: the load of the entry, the two aggregate queries of the balance  *)
(* check, the save of the entry, the loop that recomputes the balances.    *)
(* Journal lines may be saved at any time in between.                      *)
(* ----------------------------------------------------------------------- *)
(***************************************************************************)
\* the entry the requests post
RacedEntry == "JE1"

\* the rows other requests save on the entry meanwhile
RacedLines ==
    {r \in JournalLine : r.journal_entry = RacedEntry /\ r.amount = 1}

PostInit ==
    /\ LedgerIdle
    /\ pc = [r \in Requests |-> "start"]
    /\ local = [r \in Requests |-> [status |-> "none", result |-> "none"]]
    /\ last = [op |-> "none", entry |-> "none", user |-> NULL, result |-> "none"]
    /\ sequence = {}
    /\ DocIdle

\* entry = get_object_or_404(JournalEntry, id=entry_id, ...)
post_load(r) ==
    /\ pc[r] = "start"
    /\ local' = [local EXCEPT ![r].status = status[RacedEntry]]
    /\ pc' = [pc EXCEPT ![r] = "loaded"]
    /\ UNCHANGED <<ledgerVars, last>>

\* post_entry up to the balance check: the status test looks at the object
\* in memory, the totals are read from the stored lines
post_check(r) ==
    /\ pc[r] = "loaded"
    /\ IF local[r].status = "posted"
       THEN /\ local' = [local EXCEPT ![r].result = "AlreadyPosted"]
            /\ pc' = [pc EXCEPT ![r] = "done"]
       ELSE IF debit_total(journal_lines, RacedEntry)
                 # credit_total(journal_lines, RacedEntry)
       THEN /\ local' = [local EXCEPT ![r].result = "UnbalancedEntry"]
            /\ pc' = [pc EXCEPT ![r] = "done"]
       ELSE /\ pc' = [pc EXCEPT ![r] = "checked"]
            /\ UNCHANGED local
    /\ UNCHANGED <<ledgerVars, last>>

\* self.status = 'posted'; self.posted_by = user; self.posted_date = now;
\* self.save()
post_save(r, u, t) ==
    /\ pc[r] = "checked"
    /\ status' = [status EXCEPT ![RacedEntry] = "posted"]
    /\ posted_by' = [posted_by EXCEPT ![RacedEntry] = u]
    /\ posted_date' = [posted_date EXCEPT ![RacedEntry] = t]
    /\ local' = [local EXCEPT ![r].status = "posted"]
    /\ pc' = [pc EXCEPT ![r] = "saved"]
    /\ UNCHANGED <<journal_lines, balance, last>>

\* the loop over the lines that stores get_balance() in each account; the
\* call then returns and the view reports success
post_balances(r) ==
    /\ pc[r] = "saved"
    /\ balance' = [a \in Accounts |->
                     IF a \in EntryAccounts(journal_lines, RacedEntry)
                     THEN get_balance(journal_lines, a)
                     ELSE balance[a]]
    /\ local' = [local EXCEPT ![r].result = "ok"]
    /\ pc' = [pc EXCEPT ![r] = "done"]
    /\ UNCHANGED <<status, posted_by, posted_date, journal_lines, last>>

PostNext ==
    \/ \E r \in Requests : post_load(r) /\ UNCHANGED <<docVars, sequence>>
    \/ \E r \in Requests : post_check(r) /\ UNCHANGED <<docVars, sequence>>
    \/ \E r \in Requests, u \in Users, t \in Times :
          post_save(r, u, t) /\ UNCHANGED <<docVars, sequence>>
    \/ \E r \in Requests : post_balances(r) /\ UNCHANGED <<docVars, sequence>>
    \/ \E l \in RacedLines :
          CreateJournalLine(l) /\ UNCHANGED <<docVars, procVars>>

SpecPost == PostInit /\ [][PostNext]_vars

\* C19 (as claimed): of the concurrent post_entry calls on one draft entry at
\* most one succeeds.
C19_AtMostOnePostSucceeds ==
    Cardinality({r \in Requests : local[r].result = "ok"}) <= 1

(***************************************************************************)
(* ----------------------------------------------------------------------- *)
(* Concurrent saves of new lines of one order (SalesOrderLine.save and     *)
(* SalesOrder.calculate_totals; PurchaseOrderLine / PurchaseOrder alike).  *)
(* The steps of a save are its statements that touch the database: the     *)
(* insert of the line, the query that reads the lines of the order, the    *)
(* save of the order's totals.  Nothing is locked and no transaction spans *)
(* the three.                                                              *)
(* ----------------------------------------------------------------------- *)
(***************************************************************************)
\* the requests that each save one new line
LineWriters == {"r1", "r2"}

LinesInit ==
    /\ document \in {NewDocument("order", pd, "tomorrow") : pd \in PartyDiscounts}
    /\ doc_lines = <<>>
    /\ allocations = EmptyBag
    /\ receipt_lines = <<>>
    /\ pc = [r \in LineWriters |-> "start"]
    /\ local = [r \in LineWriters |-> [lines |-> <<>>]]
    /\ last = [op |-> "none", entry |-> "none", user |-> NULL, result |-> "none"]
    /\ sequence = {}
    /\ LedgerIdle

\* super().save(*args, **kwargs) of the new line
line_write(r, q, p, dp, t) ==
    LET m == [quantity |-> q, unit_price |-> p, discount_percent |-> dp,
              discount_amount |-> 0, line_total |-> 0, tax |-> t]
    IN  /\ pc[r] = "start"
        /\ doc_lines' = Append(doc_lines, line_save(m))
        /\ pc' = [pc EXCEPT ![r] = "written"]
        /\ UNCHANGED <<document, allocations, local>>

\* lines = self.order_lines.all(), evaluated by sum(...)
lines_read(r) ==
    /\ pc[r] = "written"
    /\ local' = [local EXCEPT ![r].lines = doc_lines]
    /\ pc' = [pc EXCEPT ![r] = "read"]
    /\ UNCHANGED docVars

\* self.save(update_fields=[subtotal, discount_amount, tax_amount,
\* total_amount]) with the totals of the lines that were read
parent_write(r) ==
    /\ pc[r] = "read"
    /\ document' = order_calculate_totals(document, local[r].lines)
    /\ pc' = [pc EXCEPT ![r] = "done"]
    /\ UNCHANGED <<doc_lines, allocations, local>>

LinesNext ==
    \/ \E r \in LineWriters, q \in Quantities, p \in UnitPrices,
          dp \in DiscountPercents, t \in LineTaxes :
          line_write(r, q, p, dp, t)
          /\ UNCHANGED <<ledgerVars, receipt_lines, sequence, last>>
    \/ \E r \in LineWriters :
          lines_read(r)
          /\ UNCHANGED <<ledgerVars, receipt_lines, sequence, last>>
    \/ \E r \in LineWriters :
          parent_write(r)
          /\ UNCHANGED <<ledgerVars, receipt_lines, sequence, last>>

SpecLines == LinesInit /\ [][LinesNext]_vars

\* C18 (as claimed): when the concurrent saves of two lines of an order have
\* both completed, the stored subtotal, tax_amount and total_amount are those
\* of the stored lines, which contain both writes.
C18_NoLostUpdate ==
    (\A r \in LineWriters : pc[r] = "done") =>
        /\ Len(doc_lines) = Cardinality(LineWriters)
        /\ document.subtotal = SumLineTotal(doc_lines)
        /\ document.tax_amount = SumLineTax(doc_lines)
        /\ document.total_amount =
              document.subtotal - document.discount_amount + document.tax_amount

(***************************************************************************)
(* ----------------------------------------------------------------------- *)
(* Tax.calculate_tax as a function of the tax row and the amount: one call *)
(* on an amount of a few hundredths, where the half-cent ties are, or on   *)
(* 107.00.                                                                 *)
(* ----------------------------------------------------------------------- *)
(***************************************************************************)
MaxTaxAmount == 5

\* the amounts calculate_tax is called with, in hundredths
TaxAmounts == (0..MaxTaxAmount) \cup {10700}

TaxInit ==
    /\ local \in [tax : Taxes, amount : TaxAmounts,
                  result : {[base_amount |-> 0, tax_amount |-> 0,
                             total_amount |-> 0]}]
    /\ pc = "start"
    /\ sequence = {}
    /\ last = [op |-> "none", entry |-> "none", user |-> NULL, result |-> "none"]
    /\ LedgerIdle
    /\ DocIdle

\* tax.calculate_tax(amount)
TaxCall ==
    /\ pc = "start"
    /\ local' = [local EXCEPT !.result = calculate_tax(local.tax, local.amount)]
    /\ pc' = "done"
    /\ UNCHANGED <<ledgerVars, docVars, sequence, last>>

TaxNext == TaxCall

SpecTax == TaxInit /\ [][TaxNext]_vars

\* r is n / d rounded to the nearest integer, a tie going to the even one
IsHalfEvenOf(r, n, d) ==
    /\ 2 * (r * d - n) <= d
    /\ 2 * (n - r * d) <= d
    /\ (2 * (r * d - n) = d \/ 2 * (n - r * d) = d) => r % 2 = 0

\* C22: calculate_tax returns, for an inclusive tax, amount * rate / (1 + rate)
\* as tax_amount and amount - tax_amount (= amount / (1 + rate)) as
\* base_amount, and for an exclusive tax amount * rate and amount, each
\* rounded to two places half-to-even.
C22_TaxFormulas ==
    pc = "done" =>
        LET rate == tax_rate[local.tax]
            res == local.result
        IN  IF is_inclusive[local.tax]
            THEN /\ IsHalfEvenOf(res.tax_amount, local.amount * rate, 10000 + rate)
                 /\ IsHalfEvenOf(res.base_amount, local.amount * 10000, 10000 + rate)
            ELSE /\ IsHalfEvenOf(res.tax_amount, local.amount * rate, 10000)
                 /\ res.base_amount = local.amount

\* 0.01 at 50% exclusive has been computed: the tax 0.005 is a tie and is
\* returned as 0.00
C22_Witness ==
    /\ pc = "done"
    /\ local.tax = "VAT50"
    /\ local.amount = 1
    /\ local.result.tax_amount = 0
    /\ local.result.base_amount = 1

\* C23 (as claimed): the returned total_amount is the returned base_amount
\* plus the returned tax_amount.
C23_TotalIsBasePlusTax ==
    pc = "done" =>
        local.result.total_amount
            = local.result.base_amount + local.result.tax_amount

\* C24: for an inclusive tax the returned total_amount is the amount, within
\* one hundredth.
C24_InclusiveRoundTrip ==
    (pc = "done" /\ is_inclusive[local.tax]) =>
        /\ local.result.total_amount - local.amount <= 1
        /\ local.amount - local.result.total_amount <= 1

\* 107.00 that contains 7% has been split into 100.00 and 7.00
C24_Witness ==
    /\ pc = "done"
    /\ local.tax = "VAT7I"
    /\ local.amount = 10700
    /\ local.result.base_amount = 10000
    /\ local.result.tax_amount = 700
    /\ local.result.total_amount = 10700

(***************************************************************************)
(* ----------------------------------------------------------------------- *)
(* Receipts against a purchase order (System/purchasing/models.py).        *)
(* doc_lines holds the PurchaseOrderLine rows of one purchase order, each  *)
(* with its received_quantity; receipt_lines holds the PurchaseReceiptLine *)
(* rows, each with the index of the order line its po_line refers to.      *)
(* Quantities are in whole units.                                          *)
(* ----------------------------------------------------------------------- *)
(***************************************************************************)
\* the largest number of receipt lines stored
MaxReceiptLines == 2

\* PurchaseReceiptLine.quantity_received as submitted
QuantitiesReceived == {3, 7}

\* the row written by PurchaseOrderLine(...).save() for a line form f
NewPOLine(q, p, f) ==
    line_save([quantity |-> q, unit_price |-> p,
               discount_percent |-> f.discount_percent, discount_amount |-> 0,
               line_total |-> 0, tax |-> f.tax, received_quantity |-> 0])

\* sum(line.quantity_received for line in
\*     po_line.purchasereceiptline_set.all()) over the stored rows rs
RECURSIVE SumReceived(_, _)
SumReceived(rs, pl) ==
    IF rs = <<>> THEN 0
    ELSE (IF Head(rs).po_line = pl THEN Head(rs).quantity_received ELSE 0)
             + SumReceived(Tail(rs), pl)

\* PurchaseOrderLine.get_pending_quantity
get_pending_quantity(l) == l.quantity - l.received_quantity

\* PurchaseReceiptLine.save after super().save() has left the rows rs: the
\* order line pl that self.po_line refers to gets the sum of its receipt
\* lines and is saved, which recomputes the order.
receipt_line_saved(rs, pl, q) ==
    LET m == [doc_lines[pl] EXCEPT !.received_quantity = SumReceived(rs, pl)]
        ls == [doc_lines EXCEPT ![pl] = line_save(m)]
    IN  /\ receipt_lines' = rs
        /\ doc_lines' = ls
        /\ document' = order_calculate_totals(document, ls)
        /\ last' = DocReport("receipt_line_save", NULL)
        /\ UNCHANGED allocations

\* a purchase order with two lines and nothing received
ReceiptInit ==
    /\ \E pd \in PartyDiscounts, q \in Quantities, p \in UnitPrices :
          LET ls == [i \in 1..2 |->
                       NewPOLine(q, p,
                                 [discount_percent |-> IF i = 1 THEN 0 ELSE 10,
                                  tax |-> IF i = 1 THEN NULL ELSE "VAT7"])]
          IN  /\ doc_lines = ls
              /\ document =
                    order_calculate_totals(NewDocument("order", pd, "tomorrow"),
                                           ls)
    /\ allocations = EmptyBag
    /\ receipt_lines = <<>>
    /\ last = [op |-> "none", entry |-> "none", user |-> NULL, result |-> "none"]
    /\ LedgerIdle
    /\ ProcIdle

\* PurchaseReceiptLine(po_line=pl, quantity_received=q).save() of a new row
ReceiptLineCreate(pl, q) ==
    /\ Len(receipt_lines) < MaxReceiptLines
    /\ pl \in 1..Len(doc_lines)
    /\ receipt_line_saved(Append(receipt_lines,
                                 [po_line |-> pl, quantity_received |-> q]),
                          pl, q)

\* line.save() of the stored receipt line i after setting its po_line and
\* quantity_received
ReceiptLineUpdate(i, pl, q) ==
    /\ i \in 1..Len(receipt_lines)
    /\ pl \in 1..Len(doc_lines)
    /\ receipt_line_saved([receipt_lines EXCEPT
                              ![i] = [po_line |-> pl, quantity_received |-> q]],
                          pl, q)

ReceiptNext ==
    \/ \E pl \in 1..Len(doc_lines), q \in QuantitiesReceived :
          ReceiptLineCreate(pl, q) /\ UNCHANGED <<ledgerVars, procVars>>
    \/ \E i \in 1..Len(receipt_lines), pl \in 1..Len(doc_lines),
          q \in QuantitiesReceived :
          ReceiptLineUpdate(i, pl, q) /\ UNCHANGED <<ledgerVars, procVars>>

SpecReceipt == ReceiptInit /\ [][ReceiptNext]_vars

\* C29 (as claimed): in every state each purchase-order line's
\* received_quantity is the sum of quantity_received over the receipt lines
\* whose po_line is that line, and get_pending_quantity is the ordered
\* quantity minus that sum.
C29_ReceivedMatchesReceipts ==
    \A pl \in 1..Len(doc_lines) :
        /\ doc_lines[pl].received_quantity = SumReceived(receipt_lines, pl)
        /\ get_pending_quantity(doc_lines[pl])
              = doc_lines[pl].quantity - SumReceived(receipt_lines, pl)

====
